---------------------------- MODULE Spec2Model ----------------------------
(***************************************************************************)
(* Model of generate_property_files.py: the generation pipeline that       *)
(* collects unique property names, derives the contact emails, runs the    *)
(* record loop and dumps the corpus.                                       *)
(*                                                                         *)
(* Python strings that the program inspects character by character (the    *)
(* property names and the emails) are sequences of one-character strings;  *)
(* strings that are only compared or stored are TLA+ strings.  Python's    *)
(* 0-based indices become 1-based.  The accented letters of the Mexican    *)
(* state names are written without their accents.                          *)
(***************************************************************************)
EXTENDS Integers, Sequences, FiniteSets, TLC

VARIABLES
  pc,              \* position of the script
  pool,            \* the company names the Faker provider can produce
  seen,            \* values fake.unique.company() has already returned
  names,           \* the set `names` of unique_property_names
  property_names,  \* line 222
  property_emails, \* line 223
  properties,      \* line 225
  i,               \* the loop variable of line 226
  data,            \* what json.dump wrote (line 262-267); <<>> before the dump
  run,             \* which process run of the script this is (1 or 2)
  tape,            \* the draws the seeded generators produced in run 1
  tpos,            \* number of draws run 2 has replayed
  firstData        \* the output of run 1, kept to compare with run 2

vars == << pc, pool, seen, names, property_names, property_emails, properties,
           i, data, run, tape, tpos, firstData >>

Range(s) == { s[k] : k \in DOMAIN s }

Min(a, b) == IF a < b THEN a ELSE b

-----------------------------------------------------------------------------
(* Python str operations used by the script *)

UpperLetters ==
  << "A","B","C","D","E","F","G","H","I","J","K","L","M",
     "N","O","P","Q","R","S","T","U","V","W","X","Y","Z" >>

LowerLetters ==
  << "a","b","c","d","e","f","g","h","i","j","k","l","m",
     "n","o","p","q","r","s","t","u","v","w","x","y","z" >>

\* str.lower() on one character
LowerChar(c) ==
  IF \E k \in DOMAIN UpperLetters : UpperLetters[k] = c
  THEN LowerLetters[CHOOSE k \in DOMAIN UpperLetters : UpperLetters[k] = c]
  ELSE c

\* str.lower()
Lower(s) == [k \in DOMAIN s |-> LowerChar(s[k])]

\* str.replace(old, new) for a one-character `old`
RECURSIVE Replace(_, _, _)
Replace(s, old, new) ==
  IF s = << >> THEN << >>
  ELSE (IF Head(s) = old THEN new ELSE << Head(s) >>) \o Replace(Tail(s), old, new)

\* `sub in s` for strings
Contains(sub, s) ==
  \E k \in 0 .. (Len(s) - Len(sub)) :
     \A j \in 1 .. Len(sub) : s[k + j] = sub[j]

-----------------------------------------------------------------------------
(* Reference tables *)

\* locations (lines 13-19)
locations ==
  <<
    "Beachfront", "Mountain View", "Downtown", "Desert", "Oceanfront", "Historic District",
    "Lakeside", "Countryside", "City Center", "Riverside", "Business District", "Wine Country",
    "Government District", "Tech Hub", "Plains", "Valley", "Forest", "Industrial District",
    "Gulf Coast", "Bay Area", "Ranch Land", "Wilderness", "Tropical Beach",
    "Financial District", "Coastal", "Suburban", "University District", "Ski Resort",
    "Riverfront", "Island" >>

\* us_states (lines 147-156)
us_states ==
  <<
    "Alabama", "Alaska", "Arizona", "Arkansas", "California", "Colorado", "Connecticut",
    "Delaware", "Florida", "Georgia", "Hawaii", "Idaho", "Illinois", "Indiana", "Iowa",
    "Kansas", "Kentucky", "Louisiana", "Maine", "Maryland", "Massachusetts", "Michigan",
    "Minnesota", "Mississippi", "Missouri", "Montana", "Nebraska", "Nevada", "New Hampshire",
    "New Jersey", "New Mexico", "New York", "North Carolina", "North Dakota", "Ohio",
    "Oklahoma", "Oregon", "Pennsylvania", "Rhode Island", "South Carolina", "South Dakota",
    "Tennessee", "Texas", "Utah", "Vermont", "Virginia", "Washington", "West Virginia",
    "Wisconsin", "Wyoming" >>

\* canadian_provinces (lines 159-163)
canadian_provinces ==
  <<
    "Alberta", "British Columbia", "Manitoba", "New Brunswick", "Newfoundland and Labrador",
    "Northwest Territories", "Nova Scotia", "Nunavut", "Ontario", "Prince Edward Island",
    "Quebec", "Saskatchewan", "Yukon" >>

\* mexican_states (lines 166-172)
mexican_states ==
  <<
    "Aguascalientes", "Baja California", "Baja California Sur", "Campeche", "Chiapas",
    "Chihuahua", "Coahuila", "Colima", "Durango", "Guanajuato", "Guerrero", "Hidalgo",
    "Jalisco", "Mexico", "Michoacan", "Morelos", "Nayarit", "Nuevo Leon", "Oaxaca", "Puebla",
    "Queretaro", "Quintana Roo", "San Luis Potosi", "Sinaloa", "Sonora", "Tabasco",
    "Tamaulipas", "Tlaxcala", "Veracruz", "Yucatan", "Zacatecas" >>

\* cancellation_policies (lines 183-193)
cancellation_policies ==
  <<
    "Full refund if cancelled 48 hours prior", "50% if cancelled within 48 hours",
    "No penalty if cancelled 72 hours prior", "20% penalty if cancelled within 48 hours",
    "25% penalty if cancelled within 24 hours", "30% penalty if cancelled within 72 hours",
    "40% penalty if cancelled within 24 hours", "10% penalty if cancelled within 24 hours",
    "15% penalty if cancelled within 24 hours" >>

\* keys of location_amenities in insertion order (lines 22-53)
location_amenities_keys ==
  <<
    "Beachfront", "Mountain View", "Downtown", "Desert", "Oceanfront", "Historic District",
    "Lakeside", "Countryside", "City Center", "Riverside", "Business District", "Wine Country",
    "Government District", "Tech Hub", "Plains", "Valley", "Forest", "Industrial District",
    "Gulf Coast", "Bay Area", "Ranch Land", "Wilderness", "Tropical Beach",
    "Financial District", "Coastal", "Suburban", "University District", "Ski Resort",
    "Riverfront", "Island" >>

\* location_amenities (lines 22-53); defined on its keys only
location_amenities ==
  [k \in Range(location_amenities_keys) |->
    CASE k = "Beachfront" -> << "private beach access", "ocean views", "beachside dining", "water sports equipment", "sunset terraces" >>
      [] k = "Mountain View" -> << "hiking trails", "mountain vistas", "fireplaces", "ski access", "nature walks" >>
      [] k = "Downtown" -> << "city skyline views", "rooftop bar", "business center", "metro access", "shopping nearby" >>
      [] k = "Desert" -> << "desert landscapes", "stargazing decks", "spa services", "golf course", "pool oasis" >>
      [] k = "Oceanfront" -> << "panoramic ocean views", "private balconies", "seafood restaurant", "marina access", "lighthouse views" >>
      [] k = "Historic District" -> << "heritage architecture", "antique furnishings", "guided tours", "period details", "cobblestone streets" >>
      [] k = "Lakeside" -> << "lake views", "fishing pier", "boat rentals", "lakefront dining", "swimming area" >>
      [] k = "Countryside" -> << "rolling hills", "farm-to-table dining", "horseback riding", "wine tasting", "pastoral views" >>
      [] k = "City Center" -> << "urban sophistication", "fine dining", "theater district", "shopping centers", "nightlife" >>
      [] k = "Riverside" -> << "river views", "kayak rentals", "riverside trails", "fishing spots", "peaceful setting" >>
      [] k = "Business District" -> << "conference facilities", "executive services", "high-speed internet", "corporate rates", "meeting rooms" >>
      [] k = "Wine Country" -> << "vineyard views", "wine tastings", "cellar tours", "gourmet dining", "harvest experiences" >>
      [] k = "Government District" -> << "historic landmarks", "monument views", "political tours", "security features", "diplomatic services" >>
      [] k = "Tech Hub" -> << "high-tech amenities", "fast WiFi", "co-working spaces", "innovation center", "startup networking" >>
      [] k = "Plains" -> << "wide open spaces", "prairie views", "outdoor activities", "peaceful atmosphere", "starry nights" >>
      [] k = "Valley" -> << "valley panoramas", "scenic drives", "hiking paths", "fresh air", "mountain backdrops" >>
      [] k = "Forest" -> << "forest trails", "wildlife viewing", "cabin atmosphere", "outdoor adventures", "nature immersion" >>
      [] k = "Industrial District" -> << "modern design", "converted warehouses", "urban loft style", "art galleries", "trendy restaurants" >>
      [] k = "Gulf Coast" -> << "gulf waters", "seafood cuisine", "coastal charm", "fishing charters", "beach activities" >>
      [] k = "Bay Area" -> << "bay views", "maritime culture", "sailing opportunities", "waterfront dining", "harbor tours" >>
      [] k = "Ranch Land" -> << "ranch experiences", "horseback riding", "cattle drives", "cowboy culture", "wide open spaces" >>
      [] k = "Wilderness" -> << "untouched nature", "wildlife encounters", "adventure activities", "eco-tours", "camping options" >>
      [] k = "Tropical Beach" -> << "white sand beaches", "palm trees", "tropical drinks", "snorkeling", "paradise setting" >>
      [] k = "Financial District" -> << "luxury accommodations", "business services", "upscale dining", "premium location", "executive floors" >>
      [] k = "Coastal" -> << "coastal breezes", "seaside charm", "lighthouse tours", "beach walks", "maritime history" >>
      [] k = "Suburban" -> << "family-friendly", "quiet neighborhoods", "local attractions", "easy access", "comfortable setting" >>
      [] k = "University District" -> << "academic atmosphere", "student discounts", "cultural events", "library access", "campus tours" >>
      [] k = "Ski Resort" -> << "ski slopes", "winter sports", "alpine dining", "mountain lodges", "snow activities" >>
      [] k = "Riverfront" -> << "riverfront location", "water activities", "scenic beauty", "peaceful setting", "nature walks" >>
      [] k = "Island" -> << "island paradise", "tropical setting", "water activities", "secluded beaches", "resort atmosphere" >> ]

\* keys of property_type_features in insertion order (lines 56-65)
property_type_features_keys ==
  <<
    "Resort", "Hotel", "Lodge", "Inn", "Suites", "Manor", "Retreat", "Cabin" >>

\* property_type_features (lines 56-65); defined on its keys only
property_type_features ==
  [k \in Range(property_type_features_keys) |->
    CASE k = "Resort" -> << "luxury amenities", "spa services", "multiple restaurants", "recreational facilities", "concierge service" >>
      [] k = "Hotel" -> << "comfortable rooms", "room service", "front desk", "housekeeping", "guest services" >>
      [] k = "Lodge" -> << "rustic charm", "cozy atmosphere", "outdoor activities", "lodge dining", "nature setting" >>
      [] k = "Inn" -> << "intimate setting", "personalized service", "local charm", "historic character", "boutique experience" >>
      [] k = "Suites" -> << "spacious accommodations", "separate living areas", "kitchen facilities", "extended stay options", "business amenities" >>
      [] k = "Manor" -> << "elegant architecture", "luxurious interiors", "historic grandeur", "fine dining", "exclusive atmosphere" >>
      [] k = "Retreat" -> << "peaceful environment", "wellness programs", "meditation spaces", "healthy cuisine", "rejuvenation focus" >>
      [] k = "Cabin" -> << "rustic accommodations", "nature immersion", "outdoor adventures", "cozy interiors", "campfire areas" >> ]

\* countries_states (lines 175-179), defined on its keys only
countries_states ==
  [c \in {"USA", "Canada", "Mexico"} |->
     CASE c = "USA" -> us_states
       [] c = "Canada" -> canadian_provinces
       [] c = "Mexico" -> mexican_states ]

\* countries = list(countries_states.keys()) (line 181)
countries == << "USA", "Canada", "Mexico" >>

\* the characters of each property-type word
TypeChars ==
  [t \in Range(property_type_features_keys) |->
     CASE t = "Resort"  -> << "R","e","s","o","r","t" >>
       [] t = "Hotel"   -> << "H","o","t","e","l" >>
       [] t = "Lodge"   -> << "L","o","d","g","e" >>
       [] t = "Inn"     -> << "I","n","n" >>
       [] t = "Suites"  -> << "S","u","i","t","e","s" >>
       [] t = "Manor"   -> << "M","a","n","o","r" >>
       [] t = "Retreat" -> << "R","e","t","r","e","a","t" >>
       [] t = "Cabin"   -> << "C","a","b","i","n" >> ]

\* the list random.choice draws the suffix from (line 198)
suffixes ==
  << "Resort", "Hotel", "Lodge", "Inn", "Suites", "Manor", "Retreat", "Cabin" >>

\* fallback lists of lines 81 and 84
fallback_amenities == << "scenic views", "comfortable accommodations", "friendly service" >>

fallback_features == << "quality accommodations", "excellent service" >>

\* keys of location_descriptions (lines 95-109)
location_descriptions_keys ==
  { "Beachfront", "Mountain View", "Downtown", "Desert", "Oceanfront",
    "Historic District", "Lakeside", "Countryside", "City Center", "Riverside",
    "Wine Country", "Ski Resort", "Island" }

-----------------------------------------------------------------------------
(* The pure computations of the script *)

\* f"{company} {suffix}" (line 198)
PropertyName(company, suffix) == company \o << " " >> \o TypeChars[suffix]

\* the slug with the removal of "," left out
SlugKeepsCommas(name) ==
  Replace(Replace(Replace(Lower(name), " ", << >>), "&", << "a","n","d" >>), "-", << >>)

\* the slug of line 205
Slug(name) ==
  Replace(Replace(Replace(Replace(Lower(name), " ", << >>),
                          "&", << "a","n","d" >>),
                  "-", << >>),
          ",", << >>)

\* f"info@{slug}.com" (line 206)
EmailOf(name) == << "i","n","f","o","@" >> \o Slug(name) \o << ".","c","o","m" >>

\* unique_emails(names) (lines 202-207)
unique_emails(nameList) == [k \in DOMAIN nameList |-> EmailOf(nameList[k])]

\* the property type found by the loop of lines 71-78
ExtractType(property_name) ==
  LET hits == { k \in DOMAIN property_type_features_keys :
                  Contains(TypeChars[property_type_features_keys[k]], property_name) }
  IN  IF hits = {} THEN "Hotel"
      ELSE property_type_features_keys[CHOOSE k \in hits : \A h \in hits : k <= h]

\* location_amenities.get(location, fallback) (line 81)
AmenitiesOf(location) ==
  IF location \in DOMAIN location_amenities
  THEN location_amenities[location] ELSE fallback_amenities

\* property_type_features.get(property_type, fallback) (line 84)
FeaturesOf(property_type) ==
  IF property_type \in DOMAIN property_type_features
  THEN property_type_features[property_type] ELSE fallback_features

\* three amenities instead of four
AmenityCountThree(amenities) == Min(3, Len(amenities))

\* the sizes of the two samples (lines 117-118)
AmenityCount(amenities) == Min(4, Len(amenities))

FeatureCount(type_features) == Min(3, Len(type_features))

\* random.sample(population, k): the elements at the drawn positions
Sample(population, positions) == [j \in DOMAIN positions |-> population[positions[j]]]

\* random.shuffle(x): the elements in the drawn order
Shuffle(x, perm) == [j \in DOMAIN x |-> x[perm[j]]]

\* the feature text of lines 125-130
FeatureText(all_features) ==
  IF Len(all_features) >= 3
  THEN [ lead  |-> "Enjoy",
         first |-> SubSeq(all_features, 1, 3),
         along |-> IF Len(all_features) > 3
                   THEN SubSeq(all_features, 4, Len(all_features)) ELSE << >> ]
  ELSE [ lead |-> "Experience", first |-> all_features, along |-> << >> ]

\* generate_property_description (lines 67-144); d holds the draws of
\* random.choice, random.sample (twice) and random.shuffle
generate_property_description(property_name, location, country, d) ==
  LET property_type     == ExtractType(property_name)
      amenities         == AmenitiesOf(location)
      type_features     == FeaturesOf(property_type)
      selected_amenities == Sample(amenities, d.amenityPos)
      selected_features == Sample(type_features, d.featurePos)
      all_features      == Shuffle(selected_amenities \o selected_features, d.perm)
  IN  [ opening            |-> d.opening,
        property_type      |-> property_type,
        location_desc      |-> IF location \in location_descriptions_keys
                               THEN location ELSE "generic",
        selected_amenities |-> selected_amenities,
        selected_features  |-> selected_features,
        all_features       |-> all_features,
        feature_text       |-> FeatureText(all_features),
        closing            |-> IF country \in {"USA", "Canada", "Mexico"}
                               THEN country ELSE "generic" ]

\* the list of the fallback locale for every country
get_country_specific_data_us(country) == us_states

\* the subdivision list get_country_specific_data returns (lines 209-220)
get_country_specific_data(country) == countries_states[country]

\* round(x, 2) of the value num/den cents.  A value exactly half way between
\* two cents is, as a double, on either side: `up` is the side it is on.
RoundCents(num, den, up) ==
  LET q == num \div den
      r == num % den
  IN  IF 2 * r < den THEN q
      ELSE IF 2 * r > den THEN q + 1
      ELSE IF up THEN q + 1 ELSE q

\* price = round(random.uniform(75, 750), 2) (line 237), in cents; the drawn
\* value is in thousandths of a dollar
Price(rawMills, up) == RoundCents(rawMills, 10, up)

\* the commission cut to whole cents instead of rounded
CommissionTruncated(priceCents, rateMills, up) == (priceCents * rateMills) \div 1000

\* commission = round(price * random.uniform(0.1, 0.2), 2) (line 238), in
\* cents; the drawn rate is in thousandths
Commission(priceCents, rateMills, up) == RoundCents(priceCents * rateMills, 1000, up)

\* the id without the + 1
RecordIdZeroBased(idx) == idx

\* the name of the first record for every record
RecordNameFirst(nameList, idx) == nameList[1]

\* record id (line 245)
RecordId(idx) == idx + 1

\* the name and email of record i (lines 246 and 254)
RecordName(nameList, idx) == nameList[idx + 1]

RecordEmail(emailList, idx) == emailList[idx + 1]

\* list(names) (line 200): the elements of the set in the iteration order
\* the string hashes of this process give
Orderings(S) ==
  { s \in [1 .. Cardinality(S) -> S] : \A a, b \in DOMAIN s : a # b => s[a] # s[b] }

-----------------------------------------------------------------------------
(* Inputs: the company names of the Faker provider and the draws of the    *)
(* seeded generators.  A profile names the values the draws range over.    *)

CoWoodSparks == << "W","o","o","d","-","S","p","a","r","k","s" >>

CoWoodsParks == << "W","o","o","d","s","-","P","a","r","k","s" >>

CoInnesGroup == << "I","n","n","e","s"," ","G","r","o","u","p" >>

CoRayLeeCo == << "R","a","y",","," ","L","e","e"," ","&"," ","C","o" >>

Companies == { CoWoodSparks, CoWoodsParks, CoInnesGroup, CoRayLeeCo }

\* number of records generated (1000 in the script)
NumRecords == 2

\* width of the windows of drawn prices at both ends of [75, 750], in
\* thousandths of a dollar, and of drawn rates at both ends of [0.1, 0.2],
\* in thousandths
PriceWindow == 24

RateWindow == 4

\* number of strides and of rotations the sample and shuffle draws range over
SampleStrides == 2

ShuffleSpan == 2

PriceLow == 75

PriceHigh == 750

RateLow == 100

RateHigh == 200

MilesLow == 2

MilesHigh == 30

\* the positions random.sample can draw: k distinct positions of 1..n
SampleDraws(n, k, starts, strides) ==
  { p \in { [j \in 1 .. k |-> ((s + (j - 1) * st) % n) + 1] :
              s \in 0 .. (Min(starts, n) - 1), st \in 1 .. Min(strides, n - 1) } :
      \A a, b \in 1 .. k : a # b => p[a] # p[b] }

\* the orders random.shuffle can leave m elements in
ShuffleDraws(m, span) ==
  { [j \in 1 .. m |-> ((j - 1 + r) % m) + 1] : r \in 0 .. Min(span, m - 1) }

BaseProfile ==
  [ n |-> NumRecords, runs |-> 1, pools |-> { Companies },
    suffixIdx |-> DOMAIN suffixes,
    countryIdx |-> {1}, stateIdx |-> {1}, locationIdx |-> {1},
    miles |-> {MilesLow}, priceRaw |-> {PriceLow * 1000}, rate |-> {RateLow},
    cancelIdx |-> {1}, openingIdx |-> {1},
    sampleStarts |-> 1, sampleStrides |-> 1, shuffleSpan |-> 0 ]

\* all names, few record draws
NamesProfile == BaseProfile

\* sources of every size, so that the source can run dry
SourceProfile == [ BaseProfile EXCEPT !.pools = SUBSET Companies \ { {} } ]

\* all countries and subdivisions
GeoProfile ==
  [ BaseProfile EXCEPT !.n = 2, !.pools = { { CoWoodSparks, CoInnesGroup } },
                       !.suffixIdx = {1},
                       !.countryIdx = DOMAIN countries,
                       !.stateIdx = 1 .. Len(us_states) ]

\* prices and rates near both ends of their ranges
PriceProfile ==
  [ BaseProfile EXCEPT !.n = 2, !.pools = { { CoWoodSparks, CoInnesGroup } },
                       !.suffixIdx = {1},
                       !.priceRaw = (PriceLow * 1000 .. PriceLow * 1000 + PriceWindow)
                                    \cup (PriceHigh * 1000 - PriceWindow .. PriceHigh * 1000),
                       !.rate = (RateLow .. RateLow + RateWindow)
                                \cup (RateHigh - RateWindow .. RateHigh) ]

\* all locations and property types, several samples and shuffles
DescProfile ==
  [ BaseProfile EXCEPT !.n = 1, !.pools = { { CoWoodSparks } },
                       !.locationIdx = DOMAIN locations,
                       !.sampleStarts = 5, !.sampleStrides = SampleStrides,
                       !.shuffleSpan = ShuffleSpan ]

\* two runs of the script with the same seed
TwoRunsProfile ==
  [ BaseProfile EXCEPT !.n = 2, !.runs = 2,
                       !.pools = { { CoWoodSparks, CoInnesGroup } },
                       !.suffixIdx = {1, 8},
                       !.countryIdx = {1, 2},
                       !.miles = {MilesLow, MilesHigh} ]

\* fake.company() without `unique`: any value of the provider, never raising
NameDrawsNotUnique(P) ==
  { [raise |-> FALSE, company |-> c, suffix |-> k] : c \in pool, k \in P.suffixIdx }

\* the draws of one pass of the loop of unique_property_names (line 198):
\* fake.unique.company() returns a value it has not returned before, or
\* raises UniquenessException when its retries only found earlier values;
\* random.choice then draws the suffix
NameDraws(P) ==
  { [raise |-> FALSE, company |-> c, suffix |-> k] :
      c \in pool \ seen, k \in P.suffixIdx }
  \cup (IF seen = {} THEN {}
        ELSE { [raise |-> TRUE, company |-> << >>, suffix |-> 1] })

\* the draws of random.choice(countries) and random.choice(states)
\* (lines 228-231)
GeoDraws(P) ==
  UNION { { << c, s >> :
              s \in { k \in P.stateIdx :
                        k <= Len(get_country_specific_data(countries[c])) } } :
          c \in P.countryIdx }

\* the draws of random.choice(locations) (line 235) and of the sample of the
\* amenities of that location (line 117)
LocationDraws(P) ==
  UNION { { << l, a >> :
              a \in SampleDraws(Len(AmenitiesOf(locations[l])),
                                AmenityCount(AmenitiesOf(locations[l])),
                                P.sampleStarts, P.sampleStrides) } :
          l \in P.locationIdx }

\* the draws of the sample of the features of the type of `name` (line 118)
FeatureDraws(P, name) ==
  SampleDraws(Len(FeaturesOf(ExtractType(name))),
              FeatureCount(FeaturesOf(ExtractType(name))),
              P.sampleStarts, P.sampleStrides)

\* the sides a value num/den can be on when it is half way between two cents
TieDraws(num, den) == IF 2 * (num % den) = den THEN BOOLEAN ELSE { FALSE }

-----------------------------------------------------------------------------
(* The script as a state machine *)

InitOf(P) ==
  /\ pc = "collect"
  /\ pool \in P.pools
  /\ seen = {}
  /\ names = {}
  /\ property_names = << >>
  /\ property_emails = << >>
  /\ properties = << >>
  /\ i = 0
  /\ data = << >>
  /\ run = 1
  /\ tape = << >>
  /\ tpos = 0
  /\ firstData = << >>

\* a draw d of the seeded generators: fresh in the first run, and in a second
\* run with the same seed the draw the first run got at the same place
DrawsAt(P, fresh) == IF run = 1 THEN fresh ELSE { tape[tpos + 1] }

Drawn(P, d) ==
  /\ UNCHANGED << pool, run, firstData >>
  /\ IF P.runs = 1 THEN UNCHANGED << tape, tpos >>
     ELSE IF run = 1 THEN tape' = Append(tape, d) /\ tpos' = tpos
     ELSE tape' = tape /\ tpos' = tpos + 1

\* one pass of `while len(names) < n` (lines 197-199)
CollectName(P) ==
  /\ pc = "collect"
  /\ Cardinality(names) < P.n
  /\ \E d \in DrawsAt(P, NameDraws(P)) :
       /\ IF d.raise
          THEN /\ pc' = "aborted"
               /\ UNCHANGED << seen, names >>
          ELSE /\ pc' = "collect"
               /\ seen' = seen \cup { d.company }
               /\ names' = names \cup { PropertyName(d.company, suffixes[d.suffix]) }
       /\ Drawn(P, d)
  /\ UNCHANGED << property_names, property_emails, properties, i, data >>

\* `return list(names)` (line 200) and line 222
ReturnNames(P) ==
  /\ pc = "collect"
  /\ Cardinality(names) >= P.n
  /\ \E order \in Orderings(names) : property_names' = order
  /\ pc' = "emails"
  /\ UNCHANGED << pool, seen, names, property_emails, properties, i, data,
                  run, tape, tpos, firstData >>

\* line 223
ComputeEmails ==
  /\ pc = "emails"
  /\ property_emails' = unique_emails(property_names)
  /\ pc' = "loop"
  /\ UNCHANGED << pool, seen, names, property_names, properties, i, data,
                  run, tape, tpos, firstData >>

\* the record of one pass of the loop (lines 228-259)
RecordOf(d) ==
  LET country    == countries[d.country]
      states     == get_country_specific_data(country)
      state      == states[d.state]
      location   == locations[d.location]
      price      == Price(d.priceRaw, d.priceUp)
      commission == Commission(price, d.rate, d.commUp)
  IN  [ id                          |-> RecordId(i),
        propertyName                |-> RecordName(property_names, i),
        propertyDescription         |->
          generate_property_description(property_names[i + 1], location, country, d),
        propertyLocation            |-> location,
        propertyState               |-> state,
        propertyCountry             |-> country,
        propertyEmailAddress        |-> RecordEmail(property_emails, i),
        propertyAirportMiles        |-> d.miles,
        propertyPricePerNight       |-> price,
        propertyCommissionAmount    |-> commission,
        propertyCancellationPenalty |-> cancellation_policies[d.cancel] ]

\* the append of lines 244-259 with the draws d
AppendRecord(P, d) ==
  /\ properties' = Append(properties, RecordOf(d))
  /\ Drawn(P, d)

\* one pass of `for i in range(1000)` (lines 226-259)
GenerateRecord(P) ==
  /\ pc = "loop"
  /\ i < P.n
  /\ IF run = 1
     THEN \E g \in GeoDraws(P), la \in LocationDraws(P),
             f \in FeatureDraws(P, property_names[i + 1]), m \in P.miles,
             x \in P.priceRaw, u \in P.rate, k \in P.cancelIdx, o \in P.openingIdx :
            \E sh \in ShuffleDraws(Len(la[2]) + Len(f), P.shuffleSpan),
               pu \in TieDraws(x, 10) :
              \E cu \in TieDraws(Price(x, pu) * u, 1000) :
                AppendRecord(P,
                  [ country |-> g[1], state |-> g[2], location |-> la[1], miles |-> m,
                    priceRaw |-> x, priceUp |-> pu, rate |-> u, commUp |-> cu,
                    cancel |-> k, opening |-> o, amenityPos |-> la[2],
                    featurePos |-> f, perm |-> sh ])
     ELSE AppendRecord(P, tape[tpos + 1])
  /\ i' = i + 1
  /\ UNCHANGED << pc, seen, names, property_names, property_emails, data >>

\* lines 262-267
Dump(P) ==
  /\ pc = "loop"
  /\ i >= P.n
  /\ data' = [ properties |-> properties ]
  /\ pc' = "done"
  /\ UNCHANGED << pool, seen, names, property_names, property_emails, properties,
                  i, run, tape, tpos, firstData >>

\* the script is started again with the same seed (lines 9-11) in a new process
RunAgain(P) ==
  /\ pc = "done"
  /\ run = 1
  /\ P.runs = 2
  /\ firstData' = data
  /\ run' = 2
  /\ pc' = "collect"
  /\ seen' = {}
  /\ names' = {}
  /\ property_names' = << >>
  /\ property_emails' = << >>
  /\ properties' = << >>
  /\ i' = 0
  /\ data' = << >>
  /\ UNCHANGED << pool, tape, tpos >>

NextOf(P) ==
  \/ CollectName(P)
  \/ ReturnNames(P)
  \/ ComputeEmails
  \/ GenerateRecord(P)
  \/ Dump(P)

Init == InitOf(NamesProfile)

Next == NextOf(NamesProfile)

Spec == Init /\ [][Next]_vars
GeoInit == InitOf(GeoProfile)

GeoNext == NextOf(GeoProfile)

GeoSpec == GeoInit /\ [][GeoNext]_vars

PriceInit == InitOf(PriceProfile)

PriceNext == NextOf(PriceProfile)

PriceSpec == PriceInit /\ [][PriceNext]_vars

DescInit == InitOf(DescProfile)

DescNext == NextOf(DescProfile)

DescSpec == DescInit /\ [][DescNext]_vars

TwoRunsInit == InitOf(TwoRunsProfile)

TwoRunsNext == NextOf(TwoRunsProfile) \/ RunAgain(TwoRunsProfile)

TwoRunsSpec == TwoRunsInit /\ [][TwoRunsNext]_vars

\* The script is one thread that runs without waiting for anything: a pass
\* of the collection loop that can be taken is taken, and so is its return.
SourceInit == InitOf(SourceProfile)

SourceNext == NextOf(SourceProfile)

SourceSpec ==
  /\ SourceInit
  /\ [][SourceNext]_vars
  /\ WF_vars(CollectName(SourceProfile))
  /\ WF_vars(ReturnNames(SourceProfile))

-----------------------------------------------------------------------------
(* Properties *)

Finished == pc = "done"

Distinct(s) == \A a, b \in DOMAIN s : a # b => s[a] # s[b]

EndsWith(s, tail) ==
  /\ Len(tail) <= Len(s)
  /\ SubSeq(s, Len(s) - Len(tail) + 1, Len(s)) = tail

\* the suffix word a property name was built with
SuffixOf(name) ==
  CHOOSE t \in Range(suffixes) : EndsWith(name, << " " >> \o TypeChars[t])

\* C1: two runs with the same seed write the same output
C1_SameOutput == (run = 2 /\ Finished) => data = firstData

\* C2: no two records have the same propertyEmailAddress
C2_EmailsUnique ==
  \A a, b \in DOMAIN properties :
     a # b => properties[a].propertyEmailAddress # properties[b].propertyEmailAddress

\* C4: unique_property_names returns n pairwise distinct names, record k
\* carries the k-th of them, and no two records share a name
C4_NamesDistinct ==
  /\ pc \in {"emails", "loop", "done"} =>
       /\ Len(property_names) = NamesProfile.n
       /\ Distinct(property_names)
  /\ \A k \in DOMAIN properties : properties[k].propertyName = property_names[k]
  /\ \A a, b \in DOMAIN properties :
       a # b => properties[a].propertyName # properties[b].propertyName

C4_Witness ==
  /\ Finished
  /\ Len(properties) >= 2
  /\ properties[1].propertyName # properties[2].propertyName

\* the derivation of the email as the specification words it, character by
\* character
DerivedChar(c) ==
  IF c \in {" ", "-", ","} THEN << >>
  ELSE IF c = "&" THEN << "a","n","d" >>
  ELSE << LowerChar(c) >>

RECURSIVE DerivedSlug(_)
DerivedSlug(name) ==
  IF name = << >> THEN << >> ELSE DerivedChar(Head(name)) \o DerivedSlug(Tail(name))

DerivedEmail(name) ==
  << "i","n","f","o","@" >> \o DerivedSlug(name) \o << ".","c","o","m" >>

\* C5: the stored email of every record is the derivation applied to the
\* name of the same record
C5_EmailDerived ==
  \A k \in DOMAIN properties :
     properties[k].propertyEmailAddress = DerivedEmail(properties[k].propertyName)

C5_Witness ==
  /\ Finished
  /\ Len(properties) >= 2
  /\ Contains(<< "&" >>, properties[2].propertyName)
  /\ Contains(<< "," >>, properties[2].propertyName)
  /\ Contains(<< "-" >>, properties[1].propertyName)

\* C6: after k passes the list holds k records with ids 1..k in order, at the
\* end it holds all n of them, and a record once appended stays as it is
C6_IdsSequential ==
  /\ [](/\ Len(properties) = i
        /\ \A k \in 1 .. i : properties[k].id = k
        /\ Finished => (i = NamesProfile.n /\ data.properties = properties))
  /\ [][\A k \in DOMAIN properties :
           k \in DOMAIN properties' /\ properties'[k] = properties[k]]_vars

C6_Witness == Finished /\ Len(properties) = NamesProfile.n /\ Len(properties) >= 2

\* C10: the property type the description infers from a name is the suffix
\* the name was built with
C10_TypeIsSuffix ==
  \A k \in DOMAIN properties :
     properties[k].propertyDescription.property_type
       = SuffixOf(properties[k].propertyName)

\* C3 as stated: the price is in [75.00, 750.00] and the stored commission
\* is in [0.10 * price, 0.20 * price] (amounts in cents)
C3_CommissionInRange ==
  \A k \in DOMAIN properties :
     LET price == properties[k].propertyPricePerNight
         commission == properties[k].propertyCommissionAmount
     IN  /\ PriceLow * 100 <= price /\ price <= PriceHigh * 100
         /\ RateLow * price <= 1000 * commission
         /\ 1000 * commission <= RateHigh * price

\* C3 as amended: the price is in [75.00, 750.00] and the stored commission
\* is within half a cent of [0.10 * price, 0.20 * price]
C3_CommissionWithinHalfCent ==
  \A k \in DOMAIN properties :
     LET price == properties[k].propertyPricePerNight
         commission == properties[k].propertyCommissionAmount
     IN  /\ PriceLow * 100 <= price /\ price <= PriceHigh * 100
         /\ RateLow * price - 500 <= 1000 * commission
         /\ 1000 * commission <= RateHigh * price + 500

C3_Witness ==
  /\ Finished
  /\ Len(properties) >= 2
  /\ 1000 * properties[1].propertyCommissionAmount
       < RateLow * properties[1].propertyPricePerNight
  /\ 1000 * properties[2].propertyCommissionAmount
       > RateHigh * properties[2].propertyPricePerNight

\* C7: the country of every record is USA, Canada or Mexico and its state is
\* in the subdivision list of that country
C7_StateOfCountry ==
  \A k \in DOMAIN properties :
     /\ properties[k].propertyCountry \in {"USA", "Canada", "Mexico"}
     /\ properties[k].propertyState
          \in Range(countries_states[properties[k].propertyCountry])

C7_Witness ==
  /\ Finished
  /\ Len(properties) >= 2
  /\ properties[1].propertyCountry = "Mexico"
  /\ properties[1].propertyState = "Zacatecas"
  /\ properties[2].propertyCountry = "Canada"
  /\ properties[2].propertyState = "Yukon"

\* C8: the collection loop ends; every pass of it adds a name or aborts the
\* run; it is left with exactly n distinct names; and with the source used
\* up before that the run aborts
C8_LoopEnds ==
  /\ <>(pc # "collect")
  /\ [][pc = "collect" =>
          \/ pc' = "aborted"
          \/ Cardinality(names') = Cardinality(names) + 1
          \/ pc' = "emails" /\ names' = names]_vars
  /\ [](pc \in {"emails", "loop", "done"} =>
          /\ Cardinality(names) = SourceProfile.n
          /\ Len(property_names) = SourceProfile.n
          /\ Range(property_names) = names)
  /\ (pc = "collect" /\ pool \subseteq seen /\ Cardinality(names) < SourceProfile.n)
        ~> (pc = "aborted")

C8_Witness ==
  /\ pc = "aborted"
  /\ pool \subseteq seen
  /\ Cardinality(names) < SourceProfile.n

\* C9: the description of every record has 4 distinct amenities of the
\* record's location and 3 distinct features of the inferred type, 7 entries
\* in all, in the "Enjoy ..., along with ..." form, and no fallback list
C9_SevenFeatures ==
  \A k \in DOMAIN properties :
     LET location == properties[k].propertyLocation
         desc == properties[k].propertyDescription
         joined == desc.selected_amenities \o desc.selected_features
     IN  /\ location \in DOMAIN location_amenities
         /\ desc.property_type \in DOMAIN property_type_features
         /\ Len(desc.selected_amenities) = 4
         /\ Distinct(desc.selected_amenities)
         /\ Range(desc.selected_amenities) \subseteq Range(location_amenities[location])
         /\ Len(desc.selected_features) = 3
         /\ Distinct(desc.selected_features)
         /\ Range(desc.selected_features)
              \subseteq Range(property_type_features[desc.property_type])
         /\ Len(desc.all_features) = 7
         /\ \A x \in Range(joined) :
              Cardinality({ j \in 1 .. 7 : desc.all_features[j] = x })
                = Cardinality({ j \in 1 .. 7 : joined[j] = x })
         /\ desc.feature_text.lead = "Enjoy"
         /\ desc.feature_text.first \o desc.feature_text.along = desc.all_features
         /\ Len(desc.feature_text.along) = 4

\* a record of a Forest cabin, whose amenities and features share a phrase
C9_Witness ==
  /\ Finished
  /\ Len(properties) >= 1
  /\ properties[1].propertyLocation = "Forest"
  /\ properties[1].propertyDescription.property_type = "Cabin"
  /\ Cardinality(Range(properties[1].propertyDescription.all_features)) < 7

====
